---- MODULE Spec2Model ----
(***************************************************************************)
(* Model of run.py, the launcher of the RAG question-answering system:     *)
(* main() checks the interpreter version and the required files, asks for  *)
(* confirmation, installs the packages, starts the backend as a child      *)
(* process, opens the browser and waits for the child.  SIGINT is handled  *)
(* by signal_handler, which calls sys.exit(0).                             *)
(*                                                                         *)
(* Python values: None is the empty sequence <<>>, an integer n that may   *)
(* be None is <<n>>.  Text is a sequence of tokens.  Exceptions are named  *)
(* by their class.  The SIGINT handler is run by the interpreter while     *)
(* main() is inside one of its blocking calls (input, subprocess.run,      *)
(* time.sleep, Popen.wait): the straight-line code between two blocking    *)
(* calls is one step.                                                      *)
(***************************************************************************)
EXTENDS Integers, Sequences, FiniteSets, TLC

\* ---- bounds of the model ------------------------------------------------
MaxMinor == 8
MaxEnvLines == 3
MaxAnswerLen == 3

\* ---- constants of the program -------------------------------------------
MinMajor == 3
MinMinor == 8
GraceSecs == 5
PauseSecs == 1
StoppedReturn == 0
HandlerExit == 0
AbortReturnMut == StoppedReturn
AbortReturn == 1
CancelReturnMut == StoppedReturn
CancelReturn == 1
SIGTERM == 15
SIGKILL == 9

required_files == <<".env", "requirements.txt", "main.py", "index.html">>
required_keys == <<"SUPABASE_URL", "SUPABASE_KEY", "GEMINI_API_KEY">>

Range(s) == {s[i] : i \in 1..Len(s)}

\* ---- the environment: interpreter version, files, .env text --------------
\* Majors below, at and above the required one; minors 0 and from just below
\* the required one upwards.
Versions == [major : (MinMajor - 1)..(MinMajor + 1),
             minor : {0} \cup ((MinMinor - 1)..MaxMinor)]

\* A line of .env names one key, either as an assignment "KEY=v" or with a
\* blank before the "=" ("KEY =v"), which is not the text "KEY=".
EnvLine == [key : Range(required_keys), kind : {"assign", "spaced"}]
EnvFiles == UNION {[1..n -> EnvLine] : n \in 0..MaxEnvLines}

LineText(l) ==
    IF l.kind = "assign" THEN <<l.key, "=", "v", "\n">>
    ELSE <<l.key, " ", "=", "v", "\n">>

RECURSIVE Read(_)
Read(lines) ==
    IF lines = <<>> THEN <<>> ELSE LineText(Head(lines)) \o Read(Tail(lines))

\* The keys a file assigns, by construction of its lines.
Assigned(lines) == {l.key : l \in {m \in Range(lines) : m.kind = "assign"}}

\* pat in text
Contains(text, pat) ==
    \E i \in 1..(Len(text) - Len(pat) + 1) :
        SubSeq(text, i, i + Len(pat) - 1) = pat

Marker(key) == <<key, "=">>

\* ---- check_requirements --------------------------------------------------
NoReport == [ok |-> FALSE, missing_files |-> <<>>, missing_keys |-> <<>>,
             error |-> FALSE]

Exists(fs, file) == file \in fs

KeyMissingMut(env_content, key) == ~Contains(env_content, <<key>>)
KeyMissing(env_content, key) == ~Contains(env_content, Marker(key))

MissingKeys(env_content) ==
    SelectSeq(required_keys, LAMBDA k : KeyMissing(env_content, k))

MissingFilesMut(fs) ==
    SelectSeq(SubSeq(required_files, 1, 3), LAMBDA f : ~Exists(fs, f))
MissingFiles(fs) == SelectSeq(required_files, LAMBDA f : ~Exists(fs, f))

check_requirements(fs, lines, readable) ==
    LET missing_files == MissingFiles(fs) IN
    IF missing_files # <<>>
    THEN [NoReport EXCEPT !.missing_files = missing_files]
    ELSE IF ~readable
    THEN [NoReport EXCEPT !.error = TRUE]
    ELSE LET missing_keys == MissingKeys(Read(lines)) IN
         IF missing_keys # <<>>
         THEN [NoReport EXCEPT !.missing_keys = missing_keys]
         ELSE [NoReport EXCEPT !.ok = TRUE]

\* ---- check_python_version ------------------------------------------------
check_python_version_mut(v) == ~(v.major = MinMajor /\ v.minor < MinMinor)
check_python_version(v) ==
    ~(v.major < MinMajor \/ (v.major = MinMajor /\ v.minor < MinMinor))

\* ---- the answer at the prompt -------------------------------------------
AnswerChars == {"y", "Y", "e", "s", " "}
Answers == UNION {[1..n -> AnswerChars] : n \in 0..MaxAnswerLen}

LowerChar(c) ==
    CASE c = "Y" -> "y"
      [] OTHER -> c
Lower(s) == [i \in 1..Len(s) |-> LowerChar(s[i])]

RECURSIVE LStrip(_)
LStrip(s) == IF s # <<>> /\ Head(s) = " " THEN LStrip(Tail(s)) ELSE s
RECURSIVE RStrip(_)
RStrip(s) ==
    IF s # <<>> /\ s[Len(s)] = " " THEN RStrip(SubSeq(s, 1, Len(s) - 1)) ELSE s
Strip(s) == RStrip(LStrip(s))

YesAnswers == {<<"y">>, <<"y", "e", "s">>}
ConfirmedMut(user_input) == user_input # <<>>
Confirmed(user_input) == user_input \in YesAnswers

\* ---- install_packages ----------------------------------------------------
\* The outcome of one subprocess.run: exit code zero, exit code nonzero, or
\* an exception raised by the invocation itself (OSError).
RunOutcomes == {"zero", "nonzero", "fault"}

\* ---- exceptions ------------------------------------------------------------
\* except <clause> catches <exc>: SystemExit and KeyboardInterrupt derive
\* from BaseException, not from Exception; a bare except catches all.
Catches(clause, exc) ==
    CASE clause = "bare" -> TRUE
      [] clause = "Exception" -> exc \notin {"SystemExit", "KeyboardInterrupt"}
      [] OTHER -> clause = exc

\* signal_handler: sys.exit(0) raises SystemExit(0) in the main thread.
signal_handlerMut == "KeyboardInterrupt"
signal_handler == "SystemExit"

\* sys.exit(arg) and the exit of the interpreter on an uncaught SystemExit.
ExitStatus(arg) == IF arg = <<>> THEN 0 ELSE arg[1]

\* ---- state ------------------------------------------------------------------
VARIABLES
    version,        \* sys.version_info
    files,          \* the files that exist in the current directory
    env_lines,      \* the lines of .env
    env_readable,   \* open('.env').read() succeeds
    pc,             \* the call main() is at
    steps,          \* the calls main() has made, in order
    report,         \* what check_requirements found
    user_input,     \* input(...).lower().strip()
    pip,            \* the outcomes of the two pip invocations
    polled,         \* what process.poll() returned in start_server
    server_process, \* start_server()'s result: TRUE a Popen, FALSE None
    browser,        \* outcome of webbrowser.open
    timer,          \* seconds slept in the current time.sleep
    child,          \* the backend process
    returncode,     \* Popen.returncode as poll() finds it, <<>> while alive
    child_obeys,    \* the backend exits on SIGTERM
    terminate_sent, \* server_process.terminate() was called
    kill_sent,      \* server_process.kill() was called
    raised,         \* the exception that ended server_process.wait(), or "none"
    sig_at,         \* the call during which SIGINT arrived, or "none"
    sig_child,      \* the state of the child when SIGINT arrived
    exit_code,      \* the launcher's exit status, <<>> while it runs
    uncaught        \* the exception that left main() uncaught, or "none"

vars == <<version, files, env_lines, env_readable, pc, steps, report,
          user_input, pip, polled, server_process, browser, timer, child,
          returncode,
          child_obeys, terminate_sent, kill_sent, raised, sig_at, sig_child,
          exit_code, uncaught>>

envVars == <<version, files, env_lines, env_readable>>
childVars == <<child, returncode, child_obeys>>
stopVars == <<terminate_sent, kill_sent, raised>>
sigVars == <<sig_at, sig_child>>
exitVars == <<exit_code, uncaught>>
localVars == <<report, user_input, pip, polled, server_process, browser,
               timer>>

\* The calls during which main() blocks, where the handler can run.
BlockingCalls == {"input", "pip_upgrade", "pip_install", "sleep5", "sleep1",
                  "open_browser", "wait"}

Init ==
    /\ version \in Versions
    /\ files \in SUBSET Range(required_files)
    /\ IF ".env" \in files
       THEN env_lines \in EnvFiles /\ env_readable \in BOOLEAN
       ELSE env_lines = <<>> /\ env_readable = FALSE
    /\ pc = "check_python_version"
    /\ steps = <<>>
    /\ report = NoReport
    /\ user_input = <<>>
    /\ pip = [upgrade |-> "none", install |-> "none"]
    /\ polled = <<>>
    /\ server_process = FALSE
    /\ browser = "none"
    /\ timer = 0
    /\ child = "NotSpawned"
    /\ returncode = <<>>
    /\ child_obeys = FALSE
    /\ terminate_sent = FALSE
    /\ kill_sent = FALSE
    /\ raised = "none"
    /\ sig_at = "none"
    /\ sig_child = "NotSpawned"
    /\ exit_code = <<>>
    /\ uncaught = "none"

\* main() returns r (or falls off its end, r = <<>>) and sys.exit(r) runs.
ReturnMut(r) ==
    IF r = <<AbortReturn>>
    THEN pc' = "check_python_version" /\ UNCHANGED <<exit_code, uncaught>>
    ELSE pc' = "done" /\ exit_code' = <<ExitStatus(r)>> /\ UNCHANGED uncaught
Return(r) ==
    /\ pc' = "done"
    /\ exit_code' = <<ExitStatus(r)>>
    /\ UNCHANGED uncaught

\* exc leaves main() uncaught: SystemExit(0) ends the interpreter with status
\* 0, any other exception with a traceback and status 1.
Propagate(exc) ==
    /\ pc' = "done"
    /\ exit_code' = <<IF exc = "SystemExit" THEN HandlerExit ELSE 1>>
    /\ uncaught' = exc

Did(step) == steps' = Append(steps, step)

\* ---- main(): the checks and the prompt -------------------------------------
CheckPythonVersion ==
    /\ pc = "check_python_version"
    /\ Did("check_python_version")
    /\ IF check_python_version(version)
       THEN pc' = "check_requirements" /\ UNCHANGED exitVars
       ELSE Return(<<AbortReturn>>)
    /\ UNCHANGED <<envVars, localVars, childVars, stopVars, sigVars>>

CheckRequirements ==
    /\ pc = "check_requirements"
    /\ Did("check_requirements")
    /\ report' = check_requirements(files, env_lines, env_readable)
    /\ IF report'.ok
       THEN pc' = "input" /\ UNCHANGED exitVars
       ELSE Return(<<AbortReturn>>)
    /\ UNCHANGED <<envVars, user_input, pip, polled, server_process, browser,
                   timer, childVars, stopVars, sigVars>>

Prompt ==
    /\ pc = "input"
    /\ \E answer \in Answers :
          /\ user_input' = Strip(Lower(answer))
          /\ Did("input")
          /\ IF Confirmed(user_input')
             THEN pc' = "pip_upgrade" /\ UNCHANGED exitVars
             ELSE Return(<<CancelReturn>>)
    /\ UNCHANGED <<envVars, report, pip, polled, server_process, browser,
                   timer, childVars, stopVars, sigVars>>

\* ---- install_packages ------------------------------------------------------
\* pip install --upgrade pip, check=False: the exit code is ignored, an
\* exception of the invocation is caught by "except Exception".
\* The except clauses of install_packages: CalledProcessError, then Exception.
InstallCatchesMut(exc) == Catches("CalledProcessError", exc)
InstallCatches(exc) ==
    Catches("CalledProcessError", exc) \/ Catches("Exception", exc)

\* An exception raised in install_packages: it returns False and main()
\* aborts, or the exception leaves main().
InstallRaises(exc) ==
    IF InstallCatches(exc) THEN Return(<<AbortReturn>>) ELSE Propagate(exc)

\* The upgrade step raises only when the invocation itself fails.
UpgradeRaisesMut(outcome) == outcome # "zero"
UpgradeRaises(outcome) == outcome = "fault"

PipUpgrade ==
    /\ pc = "pip_upgrade"
    /\ \E outcome \in RunOutcomes :
          /\ pip' = [pip EXCEPT !.upgrade = outcome]
          /\ Did("pip_upgrade")
          /\ IF UpgradeRaises(outcome)
             THEN InstallRaises("OSError")
             ELSE pc' = "pip_install" /\ UNCHANGED exitVars
    /\ UNCHANGED <<envVars, report, user_input, polled, server_process,
                   browser, timer, childVars, stopVars, sigVars>>

\* pip install -r requirements.txt, check=True: a nonzero exit code raises
\* CalledProcessError.
InstallOk(outcome) == outcome = "zero"

PipInstall ==
    /\ pc = "pip_install"
    /\ \E outcome \in RunOutcomes :
          /\ pip' = [pip EXCEPT !.install = outcome]
          /\ Did("pip_install")
          /\ IF InstallOk(outcome)
             THEN pc' = "Popen" /\ UNCHANGED exitVars
             ELSE InstallRaises(IF outcome = "nonzero"
                                THEN "CalledProcessError" ELSE "OSError")
    /\ UNCHANGED <<envVars, report, user_input, polled, server_process,
                   browser, timer, childVars, stopVars, sigVars>>

\* ---- start_server -----------------------------------------------------------
\* subprocess.Popen([sys.executable, "main.py"], ...): the child runs, or the
\* call raises and "except Exception" makes start_server return None.
Popen ==
    /\ pc = "Popen"
    /\ Did("Popen")
    /\ \/ /\ child' = "Running"
          /\ child_obeys' \in BOOLEAN
          /\ timer' = 0
          /\ pc' = "sleep5"
          /\ UNCHANGED <<returncode, exitVars>>
       \/ /\ Catches("Exception", "OSError")
          /\ Return(<<AbortReturn>>)
          /\ UNCHANGED <<childVars, timer>>
    /\ UNCHANGED <<envVars, report, user_input, pip, polled, server_process,
                   browser, stopVars, sigVars>>

\* time.sleep(5), one second at a time.
GraceTick ==
    /\ pc = "sleep5"
    /\ timer < GraceSecs
    /\ timer' = timer + 1
    /\ UNCHANGED <<envVars, pc, steps, report, user_input, pip, polled,
                   server_process, browser, childVars, stopVars, sigVars,
                   exitVars>>

\* process.poll() is None
StillRunningMut(code) == TRUE
StillRunning(code) == code = <<>>

\* After the sleep: start_server returns the process if poll() is None, else
\* None, and main() aborts on None.
Poll ==
    /\ pc = "sleep5"
    /\ timer = GraceSecs
    /\ Did("poll")
    /\ polled' = returncode
    /\ server_process' = StillRunning(polled')
    /\ IF server_process'
       THEN pc' = "sleep1" /\ timer' = 0 /\ UNCHANGED exitVars
       ELSE Return(<<AbortReturn>>) /\ UNCHANGED timer
    /\ UNCHANGED <<envVars, report, user_input, pip, browser, childVars,
                   stopVars, sigVars>>

\* time.sleep(1)
Pause ==
    /\ pc = "sleep1"
    /\ timer' = timer + 1
    /\ pc' = IF timer' = PauseSecs THEN "open_browser" ELSE pc
    /\ UNCHANGED <<envVars, steps, report, user_input, pip, polled,
                   server_process, browser, childVars, stopVars, sigVars,
                   exitVars>>

\* ---- open_browser, print_usage_info ------------------------------------------
\* Whatever webbrowser.open does, open_browser returns and main() goes on to
\* server_process.wait().
BrowserCatchesMut(exc) == Catches("KeyboardInterrupt", exc)
BrowserCatches(exc) == Catches("Exception", exc)

OpenBrowser ==
    /\ pc = "open_browser"
    /\ Did("open_browser")
    /\ \E outcome \in {"opened", "fault"} :
          /\ browser' = outcome
          /\ IF outcome = "fault" /\ ~BrowserCatches("Error")
             THEN Propagate("Error")
             ELSE pc' = "wait" /\ UNCHANGED exitVars
    /\ UNCHANGED <<envVars, report, user_input, pip, polled, server_process,
                   timer, childVars, stopVars, sigVars>>

\* ---- the wait phase ---------------------------------------------------------
\* Popen.terminate() and Popen.kill() do nothing once the child has exited.
\* A child that obeys SIGTERM exits within the timeout of wait(timeout=5); on
\* TimeoutExpired the bare except calls kill().
StopServer ==
    /\ terminate_sent' = TRUE
    /\ IF returncode # <<>>
       THEN UNCHANGED <<childVars, kill_sent>>
       ELSE IF child_obeys
       THEN /\ child' = "Terminated"
            /\ returncode' = <<0 - SIGTERM>>
            /\ UNCHANGED <<child_obeys, kill_sent>>
       ELSE /\ kill_sent' = TRUE
            /\ child' = "Killed"
            /\ returncode' = <<0 - SIGKILL>>
            /\ UNCHANGED child_obeys

RaisedKills(exc) ==
    /\ raised' = exc
    /\ IF Catches("KeyboardInterrupt", exc)
       THEN StopServer /\ Return(<<StoppedReturn>>)
       ELSE IF Catches("Exception", exc)
       THEN /\ kill_sent' = TRUE
            /\ Return(<<AbortReturn>>)
            /\ UNCHANGED <<childVars, terminate_sent>>
       ELSE /\ Propagate(exc)
            /\ UNCHANGED <<childVars, terminate_sent, kill_sent>>

\* server_process.wait() raised exc: the except clauses of main(), in order;
\* an exception none of them catches leaves main(), and SystemExit(0) ends
\* the interpreter with status 0.
Raised(exc) ==
    /\ raised' = exc
    /\ IF Catches("KeyboardInterrupt", exc)
       THEN StopServer /\ Return(<<StoppedReturn>>)
       ELSE IF Catches("Exception", exc)
       THEN /\ terminate_sent' = TRUE
            /\ Return(<<AbortReturn>>)
            /\ UNCHANGED <<childVars, kill_sent>>
       ELSE /\ Propagate(exc)
            /\ UNCHANGED <<childVars, terminate_sent, kill_sent>>

\* The child has exited: wait() returns and main() reaches its end.
WaitReturnsTerminates ==
    /\ pc = "wait"
    /\ returncode # <<>>
    /\ Did("wait")
    /\ terminate_sent' = TRUE
    /\ Return(<<>>)
    /\ UNCHANGED <<envVars, localVars, childVars, kill_sent, raised, sigVars>>
WaitReturnsCode ==
    /\ pc = "wait"
    /\ returncode # <<>>
    /\ Did("wait")
    /\ Return(returncode)
    /\ UNCHANGED <<envVars, localVars, childVars, stopVars, sigVars>>
WaitReturns ==
    /\ pc = "wait"
    /\ returncode # <<>>
    /\ Did("wait")
    /\ Return(<<>>)
    /\ UNCHANGED <<envVars, localVars, childVars, stopVars, sigVars>>

\* wait() fails with an exception other than the handler's.
WaitFault ==
    /\ pc = "wait"
    /\ Did("wait")
    /\ Raised("Exception")
    /\ UNCHANGED <<envVars, localVars, sigVars>>

\* ---- SIGINT --------------------------------------------------------------------
\* The handler runs inside the blocking call main() is at and raises there.
\* Only the try around server_process.wait() has except clauses of main();
\* install_packages, start_server and open_browser catch Exception only.
Signal ==
    /\ pc \in BlockingCalls
    /\ sig_at' = pc
    /\ sig_child' = child
    /\ IF pc = "wait"
       THEN Raised(signal_handler)
       ELSE /\ ~Catches("Exception", signal_handler)
            /\ Propagate(signal_handler)
            /\ UNCHANGED <<childVars, stopVars>>
    /\ UNCHANGED <<envVars, localVars, steps>>

\* ---- the backend process --------------------------------------------------------
\* main.py ends by itself, with any exit code.
ChildExits ==
    /\ child = "Running"
    /\ \E code \in 0..1 : returncode' = <<code>>
    /\ child' = "Exited"
    /\ UNCHANGED <<envVars, pc, steps, localVars, child_obeys, stopVars,
                   sigVars, exitVars>>

\* The child receives the SIGTERM of terminate() and exits.
ChildTerminates ==
    /\ child = "Running"
    /\ terminate_sent
    /\ child_obeys
    /\ child' = "Terminated"
    /\ returncode' = <<0 - SIGTERM>>
    /\ UNCHANGED <<envVars, pc, steps, localVars, child_obeys, stopVars,
                   sigVars, exitVars>>

Next ==
    \/ CheckPythonVersion
    \/ CheckRequirements
    \/ Prompt
    \/ PipUpgrade
    \/ PipInstall
    \/ Popen
    \/ GraceTick
    \/ Poll
    \/ Pause
    \/ OpenBrowser
    \/ WaitReturns
    \/ WaitFault
    \/ Signal
    \/ ChildExits
    \/ ChildTerminates

Spec == Init /\ [][Next]_vars

TypeOK ==
    /\ pc \in {"check_python_version", "check_requirements", "input",
               "pip_upgrade", "pip_install", "Popen", "sleep5", "sleep1",
               "open_browser", "wait", "done"}
    /\ child \in {"NotSpawned", "Running", "Exited", "Terminated", "Killed"}
    /\ (pc = "done") = (exit_code # <<>>)
    /\ (returncode = <<>>) = (child \in {"NotSpawned", "Running"})

\* ---- properties -----------------------------------------------------------------
AllFiles == Range(required_files)
AllKeys == Range(required_keys)
Ran(call) == call \in Range(steps)
LastCall == steps[Len(steps)]
Finished == pc = "done"
\* main() got to the call: it made it, is at it, or was interrupted in it.
Reached(call) == Ran(call) \/ pc = call \/ sig_at = call
\* SIGINT arrived while main() was blocked in wait() on the running child.
ShutdownRequested == sig_at = "wait" /\ sig_child = "Running"
\* The order of the calls of main().
MainOrder == <<"check_python_version", "check_requirements", "input",
               "pip_upgrade", "pip_install", "Popen", "poll", "open_browser",
               "wait">>
\* major.minor order
Below(v, major, minor) == v.major * 100 + v.minor < major * 100 + minor

\* C1: after a shutdown request (SIGINT) during the wait on the running child,
\* the launcher finishes with the child Terminated or Killed, never with the
\* child still Running.
C1_ShutdownStopsChild ==
    (Finished /\ ShutdownRequested) => child \in {"Terminated", "Killed"}

\* C2: shutdown requested while the child runs, and the child exits on the
\* graceful stop signal: the child ends Terminated and kill() is never issued.
C2_GracefulStop ==
    (Finished /\ ShutdownRequested /\ child_obeys)
        => (child = "Terminated" /\ ~kill_sent)

\* C3: shutdown requested while the child runs, and the child does not exit
\* on the graceful stop signal: the launcher issues kill() and the child ends
\* Killed.
C3_ForcedKill ==
    (Finished /\ ShutdownRequested /\ ~child_obeys)
        => (kill_sent /\ child = "Killed")

\* C4: if poll() at the end of the 5 second grace period finds that the child
\* has exited, with any exit code, start_server returns None, the run ends
\* with exit code 1 and poll is its last step: no browser, no banner, no wait;
\* and whoever gets past start_server had a child that poll() found alive.
C4_EarlyExitIsSpawnFailure ==
    /\ (Ran("poll") /\ polled # <<>>)
           => /\ ~server_process
              /\ Finished
              /\ exit_code = <<1>>
              /\ LastCall = "poll"
    /\ (Reached("sleep1") \/ Reached("open_browser") \/ Reached("wait"))
           => (Ran("poll") /\ polled = <<>> /\ server_process)

C4_Witness ==
    Finished /\ Ran("poll") /\ polled = <<0>> /\ child = "Exited" /\ timer = GraceSecs

\* C5: the steps run only in the gated order: the prompt only after the
\* version check and the file/key check succeeded, install_packages only
\* after the answer y or yes, start_server only after install_packages
\* succeeded, open_browser and the wait only after start_server returned a
\* running process.
C5_GatedOrder ==
    /\ \E n \in 0..Len(MainOrder) : steps = SubSeq(MainOrder, 1, n)
    /\ Reached("input") => (~Below(version, 3, 8) /\ report.ok)
    /\ (Reached("pip_upgrade") \/ Reached("pip_install"))
           => (Ran("input") /\ user_input \in {<<"y">>, <<"y", "e", "s">>})
    /\ (Reached("Popen") \/ Reached("sleep5"))
           => (Ran("pip_install") /\ pip.install = "zero"
               /\ pip.upgrade # "fault")
    /\ (Reached("sleep1") \/ Reached("open_browser") \/ Reached("wait"))
           => (Ran("poll") /\ server_process)
    /\ (Ran("input") /\ user_input \notin {<<"y">>, <<"y", "e", "s">>})
           => (Finished /\ LastCall = "input")

C5_Witness ==
    pc = "wait" /\ user_input = <<"y", "e", "s">> /\ server_process

\* C6: a run with a precondition failure, an install failure, a spawn failure
\* or an unexpected fault in the wait phase ends with exit code 1, and the
\* failing step is the last step of the run.
FailedAt(call) ==
    CASE call = "check_python_version" -> Below(version, 3, 8)
      [] call = "check_requirements" -> ~report.ok
      [] call = "pip_upgrade" -> pip.upgrade = "fault"
      [] call = "pip_install" -> pip.install \in {"nonzero", "fault"}
      [] call = "Popen" -> child = "NotSpawned"
      [] call = "poll" -> polled # <<>>
      [] call = "wait" -> raised = "Exception"
      [] OTHER -> FALSE

C6_FailureExitsOne ==
    \A i \in 1..Len(steps) :
        FailedAt(steps[i])
            => (Finished /\ exit_code = <<1>> /\ i = Len(steps))

C6_Witness ==
    Finished /\ Ran("wait") /\ raised = "Exception" /\ exit_code = <<1>>

\* C7 (as stated): a run the user cancels at the y/N prompt ends with exit
\* code 0.
C7_CancelExitsZero ==
    (Finished /\ Ran("input") /\ user_input \notin {<<"y">>, <<"y", "e", "s">>})
        => exit_code = <<0>>

\* C7 (amended): a run the user cancels at the y/N prompt (any answer other
\* than y or yes, also the empty one) ends at the prompt with exit code 1.
C7_CancelExitsOne ==
    (Ran("input") /\ user_input \notin {<<"y">>, <<"y", "e", "s">>})
        => (Finished /\ exit_code = <<1>> /\ LastCall = "input"
            /\ pip.upgrade = "none")

C7_Witness ==
    Finished /\ Ran("input") /\ user_input = <<>> /\ exit_code = <<1>>

\* C8 (as stated): check_requirements returns not-ready iff a required file is
\* absent or .env lacks one of the three key markers.
C8_ReadyIffFilesAndKeys ==
    Ran("check_requirements")
        => (~report.ok <=> (files # AllFiles \/ Assigned(env_lines) # AllKeys))

\* C8 (amended): check_requirements returns not-ready iff a required file is
\* absent, or .env lacks one of the three key markers, or .env cannot be read;
\* it returns a verdict in each case.
C8_ReadyIffFilesKeysReadable ==
    Ran("check_requirements")
        => /\ ~report.ok <=> \/ files # AllFiles
                             \/ Assigned(env_lines) # AllKeys
                             \/ ~env_readable
           /\ report.ok => Reached("input")
           /\ ~report.ok => (Finished /\ exit_code = <<1>>)

C8_Witness ==
    /\ Ran("check_requirements")
    /\ ~report.ok
    /\ files = AllFiles
    /\ env_readable
    /\ Assigned(env_lines) = {"SUPABASE_URL", "SUPABASE_KEY"}
    /\ Len(env_lines) = 3

\* C9: a version below 3.8 in major.minor order aborts the run at the version
\* check whatever the files and keys are; a version at or above 3.8 passes the
\* version check, and the run gets to the prompt iff check_requirements
\* reports ready.
C9_VersionGate ==
    Ran("check_python_version")
        => IF Below(version, 3, 8)
           THEN Finished /\ exit_code = <<1>> /\ Len(steps) = 1
           ELSE /\ Reached("check_requirements")
                /\ Ran("check_requirements") => (Reached("input") <=> report.ok)

C9_Witness ==
    version = [major |-> 4, minor |-> 0] /\ pc = "input"

InstallFailed ==
    /\ Finished
    /\ uncaught = "none"
    /\ LastCall \in {"pip_upgrade", "pip_install"}

\* C11 (as stated): install_packages fails only when the install command
\* itself fails; no outcome of the upgrade step alone makes it fail.
C11_UpgradeNeverFails ==
    (Ran("pip_upgrade") /\ InstallFailed) => pip.install \in {"nonzero", "fault"}

\* C11 (amended): once the install command has run, install_packages
\* succeeds iff it exited zero, whether the upgrade step exited zero or
\* nonzero; a nonzero exit of the upgrade step never makes install_packages
\* fail, only an exception raised while invoking the upgrade command does.
C11_InstallExitDecides ==
    /\ Ran("pip_install")
           => /\ pip.upgrade \in {"zero", "nonzero"}
              /\ pip.install = "zero" <=> Reached("Popen")
              /\ pip.install = "nonzero"
                     => (InstallFailed /\ exit_code = <<1>>
                         /\ LastCall = "pip_install")
    /\ (Ran("pip_upgrade") /\ pip.upgrade \in {"zero", "nonzero"})
           => Reached("pip_install")
    /\ (Ran("pip_upgrade") /\ InstallFailed /\ pip.install = "none")
           => pip.upgrade = "fault"

C11_Witness ==
    pip.upgrade = "nonzero" /\ pip.install = "zero" /\ pc = "Popen"

\* C12: after a successful spawn, open_browser returns whether the browser
\* opened or not and main() goes on to the wait: a browser fault is caught,
\* ends no run, sets no exit code and sends the child neither terminate nor
\* kill; the exit code of the run is that of the wait alone.
C12_BrowserBestEffort ==
    Ran("open_browser")
        => /\ browser \in {"opened", "fault"}
           /\ Reached("wait")
           /\ uncaught \in {"none", "SystemExit"}
           /\ pc = "wait" => (exit_code = <<>> /\ ~terminate_sent /\ ~kill_sent)
           /\ (terminate_sent \/ kill_sent) => raised = "Exception"
           /\ Finished => exit_code = <<IF raised = "Exception" THEN 1 ELSE 0>>

C12_Witness ==
    browser = "fault" /\ pc = "wait" /\ child = "Running"

\* The block of "except KeyboardInterrupt" (terminate, wait(timeout=5), kill)
\* is entered in no run: wait() is never ended by KeyboardInterrupt, kill()
\* is never called, and terminate() is called only by "except Exception".
StopBlockNeverEntered ==
    /\ raised # "KeyboardInterrupt"
    /\ ~kill_sent
    /\ terminate_sent => (raised = "Exception" /\ sig_at = "none")

C14_StopOnlyOnShutdown ==
    (terminate_sent \/ kill_sent) => sig_at = "wait"

\* C14 (amended): terminate() or kill() is called on the child only after
\* server_process.wait() was ended by an exception, which is a shutdown
\* request or an unexpected fault of the wait; never before the wait phase
\* and never when wait() returns normally.
C14_StopOnlyAfterWaitRaised ==
    (terminate_sent \/ kill_sent)
        => /\ Ran("wait") \/ sig_at = "wait"
           /\ raised # "none"
           /\ sig_at = "wait" \/ raised = "Exception"

C14_Witness ==
    terminate_sent /\ raised = "Exception" /\ sig_at = "none"
    /\ child = "Running" /\ Finished

C17_EachStepOnce ==
    /\ \A i, j \in 1..Len(steps) : steps[i] = steps[j] => i = j
    /\ child # "NotSpawned" => Ran("Popen")
    /\ Finished => Len(steps) <= Len(MainOrder)

C17_Witness ==
    Finished /\ Ran("Popen") /\ polled = <<1>> /\ Len(steps) = 7

\* C18: an exception raised while invoking either pip command is caught in
\* install_packages: it leaves main() as no uncaught exception, the run ends
\* with exit code 1 at that step and no child is spawned.
C18_InstallFaultCaught ==
    (pip.upgrade = "fault" \/ pip.install = "fault")
        => /\ Finished
           /\ uncaught = "none"
           /\ exit_code = <<1>>
           /\ child = "NotSpawned"
           /\ ~Ran("Popen")
           /\ LastCall = IF pip.upgrade = "fault"
                         THEN "pip_upgrade" ELSE "pip_install"

C18_Witness ==
    pip.upgrade = "nonzero" /\ pip.install = "fault" /\ Finished

\* C19: in every final state of the launcher the child was never spawned or
\* is in a terminal state.
C19_NoOrphan ==
    Finished => child \in {"NotSpawned", "Exited", "Terminated", "Killed"}

\* C20: when the child exits by itself and wait() returns, the launcher
\* finishes with exit code 0 whatever the child's exit code is, having sent
\* neither terminate nor kill; and wait() can return as soon as the child has
\* exited.
C20_NaturalExit ==
    /\ (Ran("wait") /\ raised = "none")
           => /\ Finished
              /\ exit_code = <<0>>
              /\ uncaught = "none"
              /\ child = "Exited"
              /\ ~terminate_sent
              /\ ~kill_sent
    /\ (pc = "wait" /\ child = "Exited") => ENABLED WaitReturns

C20_Witness ==
    /\ Ran("wait")
    /\ raised = "none"
    /\ sig_at = "none"
    /\ returncode = <<1>>
    /\ exit_code = <<0>>

====
